---- MODULE Spec2Model ----
(***************************************************************************)
(* Model of the live transcription server of twilio-websocket-server.     *)
(*                                                                         *)
(* src/gstt.js keeps ONE module-level AudioBuffer (`audioBuffer`), which   *)
(* every WebSocket connection's handlers use.  Its handlers run on the     *)
(* Node.js event loop: each handler, timer callback and promise            *)
(* continuation runs to completion (up to its next await on I/O) before    *)
(* the next one starts, so each of them is one action here.                *)
(***************************************************************************)
EXTENDS Integers, Sequences, FiniteSets, TLC

\* ------------------------------------------------------------------ bounds

\* WebSocket connections (calls) the transport may open.
Conns == {"A", "B"}

\* Media messages the connection "A" sends at most.
MaxFrames == 101

\* Media messages every other connection sends at most.
MaxSideFrames == 1

\* Only the first ReorderWindow media messages of a connection may arrive
\* out of sequence-number order.
ReorderWindow == 2

\* A connection delivers its media messages HeadFrames + 2 up to
\* minChunksBeforeProcessing - TailFrames back to back: no other event is
\* handled in between.
HeadFrames == 1
TailFrames == 1

\* Date.now() when the server starts, and the last instant modelled (ms).
Epoch == 4000
MaxTime == 11000

\* The clock advances in steps of ClockStep ms.
ClockStep == 1000

\* speechClient.recognize calls made in a run.
MaxCalls == 2

\* ------------------------------------------------------- program constants

\* this.processingIntervalTime (period of the setInterval timer, ms)
processingIntervalTime == 4000

\* this.minChunksBeforeProcessing
minChunksBeforeProcessing == 100

\* "now - this.lastProcessTime < 3000"
GuardMs == 3000

\* JavaScript null
NULL == "null"

\* ------------------------------------------------------------------- state

VARIABLES
    audioBuffer,   \* the module-level AudioBuffer instance (its fields)
    timers,        \* Node's active setInterval timers
    flights,       \* awaited speechClient.recognize calls (pending promises)
    calls,         \* history: every request handed to speechClient.recognize
    crashed,       \* the process died of an unhandled promise rejection
    now,           \* Date.now()
    conn,          \* transport: life cycle of each connection
    count,         \* transport: media messages each connection has sent
    held,          \* transport: sequence number delivered late (0: none)
    activeCalls,   \* the module-level Map CallSid -> call info of /twiml
    saved,         \* history: every record handed to saveTranscription
    input,         \* offline converters: the argument of the call
    output,        \* offline converters: what the call returned
    phoneCall      \* working_stt.js: the PhoneCallTranscriptionStream of a call

vars == <<audioBuffer, timers, flights, calls, crashed, now, conn, count, held,
          activeCalls, saved, input, output, phoneCall>>

\* The variables of the live server.
serverVars == <<audioBuffer, timers, flights, calls, crashed, now, conn, count, held,
                activeCalls, saved>>

\* The offline converters (command-line tools and helpers) are not run by the
\* server: no call, no result.
NoInput == [kind |-> "none"]
NoOutput == [op |-> "none"]

\* The streaming server of working_stt.js is another program: in a run of
\* the batch server or of a converter it has no call.
NoPhoneCall == [phase |-> "none"]

\* ------------------------------------------------- Buffer.from(s, 'base64')

\* The base64 alphabet; a payload is a sequence of one-character strings.
B64Alphabet ==
    << "A","B","C","D","E","F","G","H","I","J","K","L","M","N","O","P",
       "Q","R","S","T","U","V","W","X","Y","Z","a","b","c","d","e","f",
       "g","h","i","j","k","l","m","n","o","p","q","r","s","t","u","v",
       "w","x","y","z","0","1","2","3","4","5","6","7","8","9","+","/" >>

IsB64(ch) == ch \in {"-", "_"} \/ \E i \in 1..Len(B64Alphabet) : B64Alphabet[i] = ch

B64Value(ch) ==
    IF ch = "-" THEN 62
    ELSE IF ch = "_" THEN 63
    ELSE (CHOOSE i \in 1..Len(B64Alphabet) : B64Alphabet[i] = ch) - 1

\* Node's decoder skips characters outside the alphabet and stops at "=".
RECURSIVE B64Sextets(_)
B64Sextets(s) ==
    IF s = <<>> \/ Head(s) = "=" THEN <<>>
    ELSE IF IsB64(Head(s)) THEN <<B64Value(Head(s))>> \o B64Sextets(Tail(s))
    ELSE B64Sextets(Tail(s))

RECURSIVE B64Bytes(_)
B64Bytes(v) ==
    IF Len(v) < 2 THEN <<>>
    ELSE IF Len(v) = 2 THEN << v[1] * 4 + v[2] \div 16 >>
    ELSE IF Len(v) = 3
         THEN << v[1] * 4 + v[2] \div 16, (v[2] % 16) * 16 + v[3] \div 4 >>
    ELSE << v[1] * 4 + v[2] \div 16,
            (v[2] % 16) * 16 + v[3] \div 4,
            (v[3] % 4) * 64 + v[4] >> \o B64Bytes(SubSeq(v, 5, Len(v)))

BufferFrom(base64Audio) == B64Bytes(B64Sextets(base64Audio))

\* Buffer.concat(chunks): the bytes of the chunks, in list order.
BufferConcat(chunks) ==
    LET RECURSIVE concat(_, _)
        concat(lo, hi) ==
            IF lo > hi THEN <<>>
            ELSE IF lo = hi THEN chunks[lo].bytes
            ELSE LET mid == (lo + hi) \div 2
                 IN  concat(lo, mid) \o concat(mid + 1, hi)
    IN  concat(1, Len(chunks))

\* --------------------------------------------------------------- transport

\* The payload Twilio sends in the media message with sequence number n:
\* one mu-law byte, n modulo 256, base64-encoded.
PayloadOf(n) ==
    << B64Alphabet[((n % 256) \div 4) + 1],
       B64Alphabet[(((n % 256) % 4) * 16) + 1], "=", "=" >>

FrameCap(c) == IF c = "A" THEN MaxFrames ELSE MaxSideFrames

\* The sequence numbers connection c may deliver next: the next one in
\* order, or, inside the reorder window, the one after it (the skipped one
\* is then delivered right after).
NextSeqs(c) ==
    IF held[c] # 0 THEN {held[c]}
    ELSE {count[c] + 1} \cup
         (IF count[c] + 2 <= ReorderWindow /\ count[c] + 2 <= FrameCap(c)
          THEN {count[c] + 2} ELSE {})

\* Connection c is in the middle of its burst of media messages.
InBurst(c) ==
    /\ conn[c] = "started"
    /\ count[c] < FrameCap(c)
    /\ count[c] > HeadFrames
    /\ count[c] < minChunksBeforeProcessing - TailFrames

\* No connection other than c is in the middle of a burst.
Quiet(c) == \A d \in Conns \ {c} : ~InBurst(d)

Idle == \A d \in Conns : ~InBurst(d)

\* ------------------------------------------------------------- AudioBuffer

\* constructor()
NewAudioBuffer ==
    [ audioChunks        |-> <<>>,
      processingInterval |-> NULL,
      isRecording        |-> FALSE,
      lastProcessTime    |-> 0,
      chunkCount         |-> 0,
      sessionId          |-> NULL,
      callSid            |-> NULL,
      fromNumber         |-> NULL,
      toNumber           |-> NULL,
      sessionStartTime   |-> NULL ]

\* The part of the state a handler works on.
World ==
    [ buf |-> audioBuffer, timers |-> timers, flights |-> flights,
      calls |-> calls, crashed |-> crashed,
      activeCalls |-> activeCalls, saved |-> saved ]

\* The world a handler returns becomes the next state (w: the returned
\* world, worked out once).
Commit(s) ==
    \E w \in {s} :
        /\ audioBuffer' = w.buf
        /\ timers' = w.timers
        /\ flights' = w.flights
        /\ calls' = w.calls
        /\ crashed' = w.crashed
        /\ activeCalls' = w.activeCalls
        /\ saved' = w.saved
        /\ UNCHANGED <<input, output, phoneCall>>

\* setInterval / clearInterval: a handle is the first free timer id.
TimerIds == <<"timer1", "timer2", "timer3">>

NewTimerId(s) ==
    TimerIds[CHOOSE i \in 1..Len(TimerIds) :
                /\ \A t \in s.timers : t.id # TimerIds[i]
                /\ \A j \in 1..(i - 1) : \E t \in s.timers : t.id = TimerIds[j]]

setInterval(s, id) ==
    [s EXCEPT !.timers = @ \cup {[id |-> id, due |-> now + processingIntervalTime]}]

clearInterval(s, id) ==
    [s EXCEPT !.timers = {t \in @ : t.id # id}]

\* The numbers Twilio posts to /twiml for the call with CallSid callSid.
FromOf(callSid) == "From " \o callSid
ToOf(callSid) == "To " \o callSid

\* The body of the POST /twiml request for the call: its call info.
CallInfoOf(callSid) ==
    [callSid |-> callSid, from |-> FromOf(callSid), to |-> ToOf(callSid)]

\* callInfo = null, the default of setSessionInfo's second parameter
NoCallInfo == [callSid |-> NULL, from |-> NULL, to |-> NULL]

\* activeCalls.set(callSid, callInfo) and activeCalls.delete(callSid); the
\* Map is the set of its values, one for a CallSid.
MapSet(map, callInfo) ==
    {i \in map : i.callSid # callInfo.callSid} \cup {callInfo}

MapDelete(map, callSid) == {i \in map : i.callSid # callSid}

\* setSessionInfo(webSocketData, callInfo = null): the fields later code
\* reads.
setSessionInfo(s, callSid, callInfo) ==
    [s EXCEPT !.buf.sessionId = callSid,
              !.buf.callSid = callSid,
              !.buf.sessionStartTime = "Date",
              !.buf.fromNumber = IF callInfo # NoCallInfo THEN callInfo.from
                                 ELSE "unknown",
              !.buf.toNumber = IF callInfo # NoCallInfo THEN callInfo.to
                               ELSE "unknown"]

\* An addAudioChunk that holds a frame back while a recognize call is pending.
addAudioChunkWaitsForFlush(s, c, seq, base64Audio) ==
    LET chunk == [conn |-> c, seq |-> seq, bytes |-> BufferFrom(base64Audio)]
        s1 == [s EXCEPT !.buf.chunkCount = @ + 1,
                        !.buf.audioChunks = Append(@, chunk)]
    IN  IF s.flights # <<>> THEN s
        ELSE IF ~s.buf.isRecording
        THEN LET id == NewTimerId(s1)
             IN  setInterval([s1 EXCEPT !.buf.isRecording = TRUE,
                                        !.buf.processingInterval = id], id)
        ELSE s1

\* addAudioChunk(base64Audio); conn and seq record where the chunk came from.
addAudioChunk(s, c, seq, base64Audio) ==
    LET chunk == [conn |-> c, seq |-> seq, bytes |-> BufferFrom(base64Audio)]
        s1 == [s EXCEPT !.buf.chunkCount = @ + 1,
                        !.buf.audioChunks = Append(@, chunk)]
    IN  IF ~s.buf.isRecording
        THEN LET id == NewTimerId(s1)
             IN  setInterval([s1 EXCEPT !.buf.isRecording = TRUE,
                                        !.buf.processingInterval = id], id)
        ELSE s1

\* History: the number of the flush a new first call belongs to.
NextFlush(s) ==
    1 + Cardinality({s.calls[i].flush : i \in DOMAIN s.calls})

\* transcribeAudioMulaw(mulawBuffer) up to its await: an empty buffer
\* returns at once, any other is handed to speechClient.recognize.
transcribeAudioMulaw(s, frames, thenReset) ==
    IF Len(BufferConcat(frames)) = 0 THEN s
    ELSE [s EXCEPT
            !.calls = Append(@, [flush |-> NextFlush(s), encoding |-> "MULAW",
                                 session |-> s.buf.sessionId, frames |-> frames]),
            !.flights = Append(@, [call |-> Len(s.calls) + 1,
                                   thenReset |-> thenReset, stale |-> FALSE])]

\* The end of processAccumulatedAudio, after the await.
clearChunks(s) ==
    [s EXCEPT !.buf.audioChunks = <<>>, !.buf.chunkCount = 0]

\* A processAccumulatedAudio without the count gate: once the guard interval
\* has passed, a tick flushes whatever is pending.
processAccumulatedAudioTimeOnly(s, thenReset) ==
    IF now - s.buf.lastProcessTime < GuardMs THEN s
    ELSE IF s.buf.sessionStartTime = NULL
         THEN [s EXCEPT !.crashed = TRUE]
    ELSE LET s1 == [s EXCEPT !.buf.lastProcessTime = now]
             s2 == transcribeAudioMulaw(s1, s.buf.audioChunks, thenReset)
         IN  IF Len(s2.flights) > Len(s.flights) THEN s2 ELSE clearChunks(s2)

\* A processAccumulatedAudio that stamps the time of the flush before it
\* looks at the number of chunks.
processAccumulatedAudioStampsEarly(s, thenReset) ==
    IF now - s.buf.lastProcessTime < GuardMs THEN s
    ELSE IF Len(s.buf.audioChunks) < minChunksBeforeProcessing
         THEN [s EXCEPT !.buf.lastProcessTime = now]
    ELSE IF s.buf.sessionStartTime = NULL
         THEN [s EXCEPT !.crashed = TRUE]
    ELSE LET s1 == [s EXCEPT !.buf.lastProcessTime = now]
             s2 == transcribeAudioMulaw(s1, s.buf.audioChunks, thenReset)
         IN  IF Len(s2.flights) > Len(s.flights) THEN s2 ELSE clearChunks(s2)

\* processAccumulatedAudio() up to its await.  thenReset: the caller chained
\* reset() on the returned promise.
processAccumulatedAudio(s, thenReset) ==
    IF now - s.buf.lastProcessTime < GuardMs THEN s
    ELSE IF Len(s.buf.audioChunks) < minChunksBeforeProcessing THEN s
    ELSE IF s.buf.sessionStartTime = NULL
         THEN [s EXCEPT !.crashed = TRUE]   \* TypeError, never handled
    ELSE LET s1 == [s EXCEPT !.buf.lastProcessTime = now]
             s2 == transcribeAudioMulaw(s1, s.buf.audioChunks, thenReset)
         IN  IF Len(s2.flights) > Len(s.flights) THEN s2 ELSE clearChunks(s2)

\* A forceProcessAudio that sends whatever is pending, an empty buffer too.
forceProcessAudioSendsAlways(s, thenReset) ==
    LET s1 == IF s.buf.processingInterval # NULL
              THEN [clearInterval(s, s.buf.processingInterval)
                        EXCEPT !.buf.processingInterval = NULL]
              ELSE s
    IN  [s1 EXCEPT
            !.calls = Append(@, [flush |-> NextFlush(s1), encoding |-> "MULAW",
                                 session |-> s1.buf.sessionId,
                                 frames |-> s1.buf.audioChunks]),
            !.flights = Append(@, [call |-> Len(s1.calls) + 1,
                                   thenReset |-> thenReset, stale |-> FALSE])]

\* forceProcessAudio() up to its await.
forceProcessAudio(s, thenReset) ==
    LET s1 == IF s.buf.processingInterval # NULL
              THEN [clearInterval(s, s.buf.processingInterval)
                        EXCEPT !.buf.processingInterval = NULL]
              ELSE s
    IN  IF Len(s1.buf.audioChunks) > 0
        THEN processAccumulatedAudio(s1, thenReset)
        ELSE s1

\* History, no program state: the calls pending at a reset() began before it.
MarkStale(fs) == [i \in DOMAIN fs |-> [fs[i] EXCEPT !.stale = TRUE]]

\* A reset that keeps the time of the last flush.
resetKeepsLastProcessTime(s) ==
    LET s1 == IF s.buf.processingInterval # NULL
              THEN clearInterval(s, s.buf.processingInterval)
              ELSE s
    IN  [s1 EXCEPT !.buf = [NewAudioBuffer EXCEPT
                               !.lastProcessTime = s.buf.lastProcessTime],
                   !.flights = MarkStale(@)]

\* reset()
reset(s) ==
    LET s1 == IF s.buf.processingInterval # NULL
              THEN clearInterval(s, s.buf.processingInterval)
              ELSE s
    IN  [s1 EXCEPT !.buf = NewAudioBuffer,
                   !.flights = MarkStale(@),
                   !.activeCalls = IF s.buf.callSid # NULL
                                   THEN MapDelete(@, s.buf.callSid) ELSE @]

\* ---------------------------------------------------------------- handlers

\* The bound on recognize calls.
Bounded(s) == Len(s.calls) <= MaxCalls

\* A promise a handler got back is still pending: a recognize call was made.
Pending(s0, s1) == Len(s1.flights) > Len(s0.flights)

Init ==
    /\ audioBuffer = NewAudioBuffer
    /\ timers = {}
    /\ flights = <<>>
    /\ calls = <<>>
    /\ crashed = FALSE
    /\ now = Epoch
    /\ conn = [c \in Conns |-> "idle"]
    /\ count = [c \in Conns |-> 0]
    /\ held = [c \in Conns |-> 0]
    /\ activeCalls = {}
    /\ saved = <<>>
    /\ input = NoInput
    /\ output = NoOutput
    /\ phoneCall = NoPhoneCall

\* message handler, event "start": reset(), then setSessionInfo(sessionInfo)
Start(c) ==
    /\ ~crashed
    /\ Idle
    /\ conn[c] = "idle"
    /\ Commit(setSessionInfo(reset(World), c, NoCallInfo))
    /\ conn' = [conn EXCEPT ![c] = "started"]
    /\ UNCHANGED <<now, count, held>>

\* message handler, event "media" with a payload: addAudioChunk(payload)
Media(c) ==
    /\ ~crashed
    /\ Quiet(c)
    /\ conn[c] = "started"
    /\ count[c] < FrameCap(c)
    /\ \E seq \in NextSeqs(c) :
         /\ Commit(addAudioChunk(World, c, seq, PayloadOf(seq)))
         /\ held' = [held EXCEPT ![c] = IF held[c] # 0 THEN 0
                                        ELSE IF seq = count[c] + 1 THEN 0
                                        ELSE count[c] + 1]
    /\ count' = [count EXCEPT ![c] = @ + 1]
    /\ UNCHANGED <<now, conn>>

\* message handler, event "stop": forceProcessAudio(), its promise dropped
Stop(c) ==
    /\ ~crashed
    /\ Idle
    /\ conn[c] = "started"
    /\ held[c] = 0
    /\ LET s == forceProcessAudio(World, FALSE)
       IN  Bounded(s) /\ Commit(s)
    /\ conn' = [conn EXCEPT ![c] = "stopped"]
    /\ UNCHANGED <<now, count, held>>

\* What the close handler makes of the current state: reset() runs at once
\* unless the promise of forceProcessAudio() is pending or rejected.
CloseResult ==
    LET s == forceProcessAudio(World, TRUE)
    IN  IF Pending(World, s) \/ s.crashed THEN s ELSE reset(s)

\* connection.on("close"): forceProcessAudio().then(() => reset())
Close(c) ==
    /\ ~crashed
    /\ Idle
    /\ conn[c] \in {"started", "stopped"}
    /\ held[c] = 0
    /\ Bounded(CloseResult)
    /\ Commit(CloseResult)
    /\ conn' = [conn EXCEPT ![c] = "closed"]
    /\ UNCHANGED <<now, count, held>>

\* The setInterval callback: processAccumulatedAudio(), its promise dropped.
Tick ==
    /\ ~crashed
    /\ Idle
    /\ \E t \in timers :
         /\ now >= t.due
         /\ LET rearmed == (timers \ {t}) \cup
                           {[t EXCEPT !.due = now + processingIntervalTime]}
                s == processAccumulatedAudio([World EXCEPT !.timers = rearmed], FALSE)
            IN  Bounded(s) /\ Commit(s)
    /\ UNCHANGED <<now, conn, count, held>>

\* this.saveTranscription({sessionId: this.sessionId, callSid: ...}) in the
\* continuation of transcribeAudioMulaw; call: the number of the recognize
\* call whose transcript is saved.
saveTranscription(s, call) ==
    [s EXCEPT !.saved = Append(@, [call |-> call,
                                   sessionId |-> s.buf.sessionId,
                                   callSid |-> s.buf.callSid,
                                   fromNumber |-> s.buf.fromNumber,
                                   toNumber |-> s.buf.toNumber])]

\* What speechClient.recognize may answer.
Outcomes == {"transcript", "empty", "error"}

\* The recognize call of flights[i] settles with `outcome`:
\* transcribeAudioMulaw handles every outcome (its try/catch logs an error)
\* and returns, processAccumulatedAudio clears the chunks, and a chained
\* reset() runs.
Settles(i, outcome) ==
    /\ ~crashed
    /\ Idle
    /\ i \in 1..Len(flights)
    /\ outcome \in Outcomes
    /\ LET f == flights[i]
           s0 == [World EXCEPT !.flights = SubSeq(flights, 1, i - 1) \o
                                           SubSeq(flights, i + 1, Len(flights))]
           s1 == clearChunks(IF outcome = "transcript"
                             THEN saveTranscription(s0, f.call) ELSE s0)
       IN  Commit(IF f.thenReset THEN reset(s1) ELSE s1)
    /\ UNCHANGED <<now, conn, count, held>>

RecognizeReturns ==
    \E i \in 1..Len(flights) : \E outcome \in Outcomes : Settles(i, outcome)

\* Time passes, once every due timer callback has run, up to the end of the
\* window MaxTime (AdvanceBeyond is the clock past it).
Advance ==
    /\ ~crashed
    /\ Idle
    /\ now + ClockStep <= MaxTime
    /\ \A t \in timers : now < t.due
    /\ now' = now + ClockStep
    /\ UNCHANGED <<audioBuffer, timers, flights, calls, crashed, conn, count, held>>
    /\ UNCHANGED <<activeCalls, saved, input, output, phoneCall>>

Next ==
    \/ \E c \in Conns : Start(c)
    \/ \E c \in Conns : Media(c)
    \/ \E c \in Conns : Stop(c)
    \/ \E c \in Conns : Close(c)
    \/ Tick
    \/ RecognizeReturns
    \/ Advance

Spec == Init /\ [][Next]_vars

\* The server with one call only: no second connection ever opens.
Solo == {"A"}

NextSolo ==
    \/ \E c \in Solo : Start(c)
    \/ \E c \in Solo : Media(c)
    \/ \E c \in Solo : Stop(c)
    \/ \E c \in Solo : Close(c)
    \/ Tick
    \/ RecognizeReturns
    \/ Advance

SpecSolo == Init /\ [][NextSolo]_vars

\* ------------------------------------- malformed frames and stray signals
\* The transport may also send a media message whose payload is empty or is
\* not base64, and a stop or close for a call that has no session (never
\* started, or already stopped).

\* Only the first MalformedWindow media messages of a call may be malformed.
MalformedWindow == 1

\* Payloads that are not the base64 text of audio: the empty string, text
\* outside the base64 alphabet, padding only.
MalformedPayloads == { <<>>, <<"!", "!", "!", "!">>, <<"=", "=">> }

\* message handler, event "media": the branch is taken only if
\* data.media.payload is truthy (a non-empty string).
onMedia(s, c, seq, payload) ==
    IF payload # <<>> THEN addAudioChunk(s, c, seq, payload) ELSE s

\* A media message with a malformed payload.
MediaMalformed(c) ==
    /\ ~crashed
    /\ Quiet(c)
    /\ conn[c] = "started"
    /\ count[c] < MalformedWindow
    /\ count[c] < FrameCap(c)
    /\ held[c] = 0
    /\ \E payload \in MalformedPayloads :
         Commit(onMedia(World, c, count[c] + 1, payload))
    /\ count' = [count EXCEPT ![c] = @ + 1]
    /\ UNCHANGED <<now, conn, held>>

\* message handler, event "stop", on a connection with no session: the
\* handler looks no session up and calls forceProcessAudio() all the same.
StrayStop(c) ==
    /\ ~crashed
    /\ Idle
    /\ conn[c] \in {"idle", "stopped"}
    /\ LET s == forceProcessAudio(World, FALSE)
       IN  Bounded(s) /\ Commit(s)
    /\ UNCHANGED <<now, conn, count, held>>

\* connection.on("close") of a connection that never sent a start event.
StrayClose(c) ==
    /\ ~crashed
    /\ Idle
    /\ conn[c] = "idle"
    /\ Bounded(CloseResult)
    /\ Commit(CloseResult)
    /\ conn' = [conn EXCEPT ![c] = "closed"]
    /\ UNCHANGED <<now, count, held>>

\* One call, "A", that may send malformed frames, while any connection may
\* send stray signals.
NextFaulty ==
    \/ \E c \in Solo : Start(c)
    \/ \E c \in Solo : Media(c)
    \/ \E c \in Solo : MediaMalformed(c)
    \/ \E c \in Solo : Stop(c)
    \/ \E c \in Solo : Close(c)
    \/ \E c \in Conns : StrayStop(c)
    \/ \E c \in Conns : StrayClose(c)
    \/ Tick
    \/ RecognizeReturns
    \/ Advance

SpecFaulty == Init /\ [][NextFaulty]_vars

\* ------------------------------------------------- the /twiml request
\* One call, with the webhook request Twilio makes for it before it opens
\* the media stream.

\* app.post("/twiml"): activeCalls.set(callInfo.callSid, callInfo)
Twiml(c) ==
    /\ ~crashed
    /\ Idle
    /\ conn[c] = "idle"
    /\ CallInfoOf(c) \notin activeCalls
    /\ Commit([World EXCEPT !.activeCalls = MapSet(@, CallInfoOf(c))])
    /\ UNCHANGED <<now, conn, count, held>>

NextTwiml ==
    \/ \E c \in Solo : Twiml(c)
    \/ \E c \in Solo : Start(c)
    \/ \E c \in Solo : Media(c)
    \/ \E c \in Solo : Stop(c)
    \/ \E c \in Solo : Close(c)
    \/ Tick
    \/ RecognizeReturns
    \/ Advance

SpecTwiml == Init /\ [][NextTwiml]_vars

\* ------------------------------------------------------- a stalled stream
\* Time passes beyond MaxTime: Date.now() goes on growing for as long as the
\* server runs.  The code reads the clock only against the instants it has
\* stored (a timer's due time, lastProcessTime), so the model keeps `now`
\* at the end of its window and moves the stored instants ClockStep ms
\* into the past instead; lastProcessTime stops at 0, older than GuardMs.
AdvanceBeyond ==
    /\ ~crashed
    /\ Idle
    /\ now + ClockStep > MaxTime
    /\ \A t \in timers : now < t.due
    /\ timers' = {[t EXCEPT !.due = @ - ClockStep] : t \in timers}
    /\ audioBuffer' = [audioBuffer EXCEPT !.lastProcessTime =
                          IF @ > ClockStep THEN @ - ClockStep ELSE 0]
    /\ UNCHANGED <<now, flights, calls, crashed, conn, count, held>>
    /\ UNCHANGED <<activeCalls, saved, input, output, phoneCall>>

\* One connection, with the scheduling the event loop gives: a timer that
\* is due has its callback run, the clock goes on without end, and a burst
\* of media messages that has begun is delivered to its end.  Nothing makes
\* Twilio send another burst, a stop or a close: the stream may stall.
SpecStall ==
    /\ Init
    /\ [][NextSolo \/ AdvanceBeyond]_vars
    /\ WF_vars(Tick)
    /\ WF_vars(Advance)
    /\ WF_vars(AdvanceBeyond)
    /\ WF_vars(\E c \in Solo : InBurst(c) /\ Media(c))

\* ------------------------------------------------------ calls in a row
\* Call "A", and then a second call that starts once "A" has stopped or
\* closed: what the first call left in the buffer meets the second start.

\* The start event of the call that follows call "A".
StartAfter(c) ==
    /\ conn["A"] \in {"stopped", "closed"}
    /\ Start(c)

NextHandover ==
    \/ \E c \in Solo : Start(c)
    \/ \E c \in Conns \ Solo : StartAfter(c)
    \/ \E c \in Conns : Media(c)
    \/ \E c \in Conns : Stop(c)
    \/ \E c \in Conns : Close(c)
    \/ Tick
    \/ RecognizeReturns
    \/ Advance

SpecHandover == Init /\ [][NextHandover]_vars

\* ------------------------------------------- the earlier server (legacy)
\* src/dialogflow-service.js, from line 878 on, is an earlier version of the
\* same server: an AudioBuffer without session fields, a close handler that
\* only resets, and a transcription with fallbacks.

\* Calls the earlier server may make in a run.
MaxLegacyCalls == 3

\* constructor()
NewLegacyBuffer ==
    [ audioChunks        |-> <<>>,
      processingInterval |-> NULL,
      isRecording        |-> FALSE,
      lastProcessTime    |-> 0,
      chunkCount         |-> 0 ]

\* reset()
resetLegacy(s) ==
    LET s1 == IF s.buf.processingInterval # NULL
              THEN clearInterval(s, s.buf.processingInterval)
              ELSE s
    IN  [s1 EXCEPT !.buf = NewLegacyBuffer, !.flights = MarkStale(@)]

\* A speechClient.recognize request of the flush `flush`; frames: the frames
\* whose audio it carries (as mu-law bytes, or converted to a WAV file).
LegacyCall(s, flush, encoding, frames) ==
    [s EXCEPT !.calls = Append(@, [flush |-> flush, encoding |-> encoding,
                                   session |-> NULL, frames |-> frames])]

\* transcribeAudioMulaw(mulawBuffer) up to its first await
transcribeAudioMulawLegacy(s, frames) ==
    IF Len(BufferConcat(frames)) = 0 THEN s
    ELSE LET flush == NextFlush(s)
         IN  [LegacyCall(s, flush, "MULAW", frames) EXCEPT
                 !.flights = Append(@, [call |-> flush, thenReset |-> FALSE,
                                        stale |-> FALSE, stage |-> "mulaw",
                                        frames |-> frames])]

\* processAccumulatedAudio() up to its await
processAccumulatedAudioLegacy(s) ==
    IF now - s.buf.lastProcessTime < GuardMs THEN s
    ELSE IF Len(s.buf.audioChunks) < minChunksBeforeProcessing THEN s
    ELSE LET s1 == [s EXCEPT !.buf.lastProcessTime = now]
             s2 == transcribeAudioMulawLegacy(s1, s.buf.audioChunks)
         IN  IF Len(s2.flights) > Len(s.flights) THEN s2 ELSE clearChunks(s2)

\* forceProcessAudio() up to its await
forceProcessAudioLegacy(s) ==
    LET s1 == IF s.buf.processingInterval # NULL
              THEN [clearInterval(s, s.buf.processingInterval)
                        EXCEPT !.buf.processingInterval = NULL]
              ELSE s
    IN  IF Len(s1.buf.audioChunks) > 0
        THEN processAccumulatedAudioLegacy(s1)
        ELSE s1

\* What a recognize call of the earlier server may answer: a transcript, a
\* low-confidence transcript tagged as Hindi, no result, or an error.
LegacyOutcomes == {"transcript", "lowHindi", "empty", "error"}

\* The stage that follows stage `stage` on `outcome` ("done": the chain of
\* transcribeAudioMulaw has returned).  mulawData: Buffer.concat of the
\* chunks pending when retryWithMulaw runs.
\*   transcribeAudioMulaw: no result or error -> transcribeAudio(wavBuffer)
\*   transcribeAudio: low-confidence Hindi -> retryWithEnglish(wavBuffer),
\*                    no result or error -> retryWithMulaw(wavBuffer)
NextStage(stage, outcome, mulawData) ==
    IF stage = "mulaw"
    THEN IF outcome \in {"empty", "error"} THEN "linear16" ELSE "done"
    ELSE IF stage = "linear16"
    THEN IF outcome = "lowHindi" THEN "english"
         ELSE IF outcome \in {"empty", "error"} /\ Len(mulawData) > 0
              THEN "retry"
         ELSE "done"
    ELSE "done"

LegacyInit ==
    /\ audioBuffer = NewLegacyBuffer
    /\ timers = {}
    /\ flights = <<>>
    /\ calls = <<>>
    /\ crashed = FALSE
    /\ now = Epoch
    /\ conn = [c \in Conns |-> "idle"]
    /\ count = [c \in Conns |-> 0]
    /\ held = [c \in Conns |-> 0]
    /\ activeCalls = {}
    /\ saved = <<>>
    /\ input = NoInput
    /\ output = NoOutput
    /\ phoneCall = NoPhoneCall

LegacyBounded(s) == Len(s.calls) <= MaxLegacyCalls

\* message handler, event "start": reset()
LegacyStart(c) ==
    /\ Idle
    /\ conn[c] = "idle"
    /\ Commit(resetLegacy(World))
    /\ conn' = [conn EXCEPT ![c] = "started"]
    /\ UNCHANGED <<now, count, held>>

\* message handler, event "stop": forceProcessAudio(), its promise dropped
LegacyStop(c) ==
    /\ Idle
    /\ conn[c] = "started"
    /\ held[c] = 0
    /\ LET s == forceProcessAudioLegacy(World)
       IN  LegacyBounded(s) /\ Commit(s)
    /\ conn' = [conn EXCEPT ![c] = "stopped"]
    /\ UNCHANGED <<now, count, held>>

\* connection.on("close"): reset()
LegacyClose(c) ==
    /\ Idle
    /\ conn[c] \in {"started", "stopped"}
    /\ held[c] = 0
    /\ Commit(resetLegacy(World))
    /\ conn' = [conn EXCEPT ![c] = "closed"]
    /\ UNCHANGED <<now, count, held>>

\* The setInterval callback: processAccumulatedAudio()
LegacyTick ==
    /\ Idle
    /\ \E t \in timers :
         /\ now >= t.due
         /\ LET rearmed == (timers \ {t}) \cup
                           {[t EXCEPT !.due = now + processingIntervalTime]}
                s == processAccumulatedAudioLegacy([World EXCEPT !.timers = rearmed])
            IN  LegacyBounded(s) /\ Commit(s)
    /\ UNCHANGED <<now, conn, count, held>>

\* A recognize call settles: the fallback chain goes on to its next call, or
\* it has ended and processAccumulatedAudio clears the chunks.
LegacyRecognizeReturns ==
    /\ Idle
    /\ \E i \in 1..Len(flights) : \E outcome \in LegacyOutcomes :
         LET f == flights[i]
             mulawData == BufferConcat(audioBuffer.audioChunks)
             stage == NextStage(f.stage, outcome, mulawData)
             rest == [World EXCEPT !.flights = SubSeq(flights, 1, i - 1) \o
                                               SubSeq(flights, i + 1, Len(flights))]
             next == [World EXCEPT !.flights[i].stage = stage]
             s == IF stage = "done" THEN clearChunks(rest)
                  ELSE IF stage = "retry"
                  THEN LegacyCall(next, f.call, "MULAW", audioBuffer.audioChunks)
                  ELSE LegacyCall(next, f.call, "LINEAR16", f.frames)
         IN  LegacyBounded(s) /\ Commit(s)
    /\ UNCHANGED <<now, conn, count, held>>

NextLegacy ==
    \/ \E c \in Solo : LegacyStart(c)
    \/ \E c \in Solo : Media(c)
    \/ \E c \in Solo : LegacyStop(c)
    \/ \E c \in Solo : LegacyClose(c)
    \/ LegacyTick
    \/ LegacyRecognizeReturns
    \/ Advance

SpecLegacy == LegacyInit /\ [][NextLegacy]_vars

\* ------------------------------------------------ offline reassembly
\* The command-line converters take a JSON array of recorded Twilio
\* messages and reassemble its audio:
\*   TwilioAudioProcessor.extractAudioFromTwilioArray  (dialogflow-service.js)
\*   TwilioAudioProcessor.extractAllMediaPayloads and its caller
\*   convertTwilioArrayToWav                           (unnamed/part_003)

\* Messages in a recorded array at most.
MaxMessages == 3

\* The sequenceNumber strings of the recorded media messages.
SeqNumbers == { <<"1">>, <<"2">>, <<"1", "0">> }

\* The payloads of the recorded media messages: base64 of the bytes <<1>>
\* (padded "=="), <<2, 3>> (padded "=") and <<4, 5, 6>> (no padding).
RecordedPayloads ==
    { <<"A", "Q", "=", "=">>, <<"A", "g", "M", "=">>, <<"B", "A", "U", "G">> }

\* The messages of a recording: media messages, a media message without a
\* payload, and a message of another event.
RecordedMessages ==
    [event : {"media"}, sequenceNumber : SeqNumbers, payload : RecordedPayloads]
    \cup {[event |-> "media", sequenceNumber |-> <<"1">>, payload |-> <<>>],
          [event |-> "start", sequenceNumber |-> <<"1">>, payload |-> <<>>]}

JsonArrays ==
    UNION {[1..n -> RecordedMessages] : n \in 0..MaxMessages}

\* parseInt(s) of a string of decimal digits.
DecimalDigits == <<"0", "1", "2", "3", "4", "5", "6", "7", "8", "9">>

RECURSIVE ParseDigits(_, _)
ParseDigits(s, acc) ==
    IF s = <<>> THEN acc
    ELSE ParseDigits(Tail(s),
                     acc * 10 + (CHOOSE d \in 0..9 : DecimalDigits[d + 1] = Head(s)))

parseInt(s) == ParseDigits(s, 0)

\* The comparator (a, b) => parseInt(a.sequenceNumber) - parseInt(b.sequenceNumber)
CompareSequenceNumber(a, b) == parseInt(a.sequenceNumber) - parseInt(b.sequenceNumber)

\* A reassembly that leaves the messages in their order of arrival.
KeepArrivalOrder(ms) == ms

\* Array.prototype.sort with that comparator: V8's sort is stable, so each
\* element goes behind the elements that do not compare greater.
RECURSIVE SortMessages(_)
SortMessages(ms) ==
    IF ms = <<>> THEN <<>>
    ELSE LET front == SortMessages(SubSeq(ms, 1, Len(ms) - 1))
             m == ms[Len(ms)]
             k == Cardinality({i \in DOMAIN front :
                                  CompareSequenceNumber(front[i], m) <= 0})
         IN  SubSeq(front, 1, k) \o <<m>> \o SubSeq(front, k + 1, Len(front))

\* msg.event === 'media' && msg.media && msg.media.payload
IsMediaMessage(msg) == msg.event = "media" /\ msg.payload # <<>>

\* extractAudioFromTwilioArray(jsonArray): filter, sort, decode each payload
\* on its own, Buffer.concat.  It throws when there is no media message.
extractAudioFromTwilioArray(jsonArray) ==
    LET mediaMessages == SortMessages(SelectSeq(jsonArray, IsMediaMessage))
        audioBuffers == [i \in DOMAIN mediaMessages |->
                            [bytes |-> BufferFrom(mediaMessages[i].payload)]]
    IN  IF mediaMessages = <<>>
        THEN [threw |-> TRUE, value |-> <<>>]
        ELSE [threw |-> FALSE, value |-> BufferConcat(audioBuffers)]

\* payloads.join('')
RECURSIVE JoinPayloads(_)
JoinPayloads(ms) ==
    IF ms = <<>> THEN <<>> ELSE ms[1].payload \o JoinPayloads(Tail(ms))

\* extractAllMediaPayloads(jsonData): filter, sort, join the base64 texts;
\* null when there is no media message.
extractAllMediaPayloads(jsonData) ==
    LET mediaMessages == SelectSeq(jsonData, IsMediaMessage)
    IN  IF mediaMessages = <<>> THEN NULL
        ELSE JoinPayloads(SortMessages(mediaMessages))

\* convertTwilioArrayToWav(jsonArray, ...) up to its mulawBuffer: it throws
\* on null and decodes the joined text with one Buffer.from.
convertTwilioArrayToWav(jsonArray) ==
    LET combinedPayload == extractAllMediaPayloads(jsonArray)
    IN  IF combinedPayload = NULL
        THEN [threw |-> TRUE, value |-> <<>>]
        ELSE [threw |-> FALSE, value |-> BufferFrom(combinedPayload)]

\* The server is not running (the first nine conjuncts of Init); the
\* recording is any array of recorded messages.
ReassemblyInit ==
    /\ Init!1 /\ Init!2 /\ Init!3 /\ Init!4 /\ Init!5
    /\ Init!6 /\ Init!7 /\ Init!8 /\ Init!9
    /\ Init!10 /\ Init!11
    /\ input \in [kind : {"jsonArray"}, jsonArray : JsonArrays]
    /\ output = NoOutput
    /\ phoneCall = NoPhoneCall

\* A run of the converter of dialogflow-service.js on the recording.
ExtractAudio ==
    /\ input.kind = "jsonArray"
    /\ output = NoOutput
    /\ LET r == extractAudioFromTwilioArray(input.jsonArray)
       IN  output' = [op |-> "extractAudioFromTwilioArray",
                      threw |-> r.threw, value |-> r.value]
    /\ UNCHANGED <<serverVars, input, phoneCall>>

\* A run of the converter of unnamed/part_003 on the recording.
ConvertTwilioArray ==
    /\ input.kind = "jsonArray"
    /\ output = NoOutput
    /\ LET r == convertTwilioArrayToWav(input.jsonArray)
       IN  output' = [op |-> "convertTwilioArrayToWav",
                      threw |-> r.threw, value |-> r.value]
    /\ UNCHANGED <<serverVars, input, phoneCall>>

NextReassembly ==
    \/ ExtractAudio
    \/ ConvertTwilioArray

SpecReassembly == ReassemblyInit /\ [][NextReassembly]_vars

\* ------------------------------------------------------- mu-law decoders
\* JavaScript's bitwise operators on the values the decoders meet (all well
\* inside 32 bits, so no operator wraps).

\* a & b for a, b >= 0
RECURSIVE AndBits(_, _)
AndBits(a, b) ==
    IF a = 0 \/ b = 0 THEN 0
    ELSE (a % 2) * (b % 2) + 2 * AndBits(a \div 2, b \div 2)

\* x & mask for a mask below 2^16: only the low 16 bits of x, taken in two's
\* complement, matter (x may be negative: ~b is).
BitAnd(x, mask) == AndBits(x % 65536, mask)

\* a | b for a, b >= 0
BitOr(a, b) == a + b - AndBits(a, b)

\* ~x
BitNot(x) == -x - 1

\* x >> n (arithmetic) and x << n
ShiftRight(x, n) == x \div (2 ^ n)
ShiftLeft(x, n) == x * (2 ^ n)

\* Math.max, Math.min
MathMax(a, b) == IF a >= b THEN a ELSE b
MathMin(a, b) == IF a <= b THEN a ELSE b

\* const BIAS = 0x84; const CLIP = 32635;
BIAS == 132
CLIP == 32635

\* ImprovedAudioConverter.mulawDecode(mulawByte) of unnamed/part_000; the
\* TwilioAudioProcessor of dialogflow-service.js and of unnamed/part_003 has
\* the same code.
mulawDecode(mulawByte) ==
    LET b == BitAnd(BitNot(mulawByte), 255)
        sign == BitAnd(b, 128)
        exponent == BitAnd(ShiftRight(b, 4), 7)
        mantissa == BitAnd(b, 15)
        linearValue == IF exponent = 0
                       THEN ShiftLeft(mantissa, 4) + BIAS
                       ELSE ShiftLeft(BitOr(mantissa, 16), exponent + 3) + BIAS
        signed == IF sign # 0 THEN -linearValue ELSE linearValue
    IN  MathMax(-CLIP, MathMin(CLIP, signed))

\* ImprovedAudioConverter.generateMulawTable(): table[i] for i in 0..255
generateMulawTable ==
    [i \in 0..255 |->
        LET b == BitAnd(BitNot(i), 255)
            sign == BitAnd(b, 128)
            exponent == BitAnd(ShiftRight(b, 4), 7)
            mantissa == BitAnd(b, 15)
            sample == ShiftLeft(mantissa, exponent + 3) + BIAS
            signed == IF sign # 0 THEN -sample ELSE sample
        IN  MathMax(-32768, MathMin(32767, signed))]

\* ImprovedAudioConverter.mulawDecodeAlt(mulawByte)
mulawDecodeAlt(mulawByte) == generateMulawTable[mulawByte]

\* Base64ToWavConverter.mulawDecode(mulawByte) of unnamed/part_001 (the
\* AudioStitcher of unnamed/part_002 has the same code): the complement is
\* not masked to 8 bits.
Base64ToWavConverter_mulawDecode(mulawByte) ==
    LET b == BitNot(mulawByte)
        sign == BitAnd(b, 128)
        exponent == BitAnd(ShiftRight(b, 4), 7)
        mantissa == BitAnd(b, 15)
        sample == ShiftLeft(mantissa, exponent + 3) + BIAS
        signed == IF sign # 0 THEN -sample ELSE sample
    IN  MathMax(-CLIP, MathMin(CLIP, signed))

\* A decoder that shifts the mantissa two bits too far.
mulawToPcmShiftedTooFar(mulawByte) ==
    LET b == BitNot(mulawByte)
        sign == BitAnd(b, 128)
        exponent == BitAnd(ShiftRight(b, 4), 7)
        mantissa == BitAnd(b, 15)
        sample == ShiftLeft(mantissa, exponent + 5) + BIAS
    IN  IF sign # 0 THEN -sample ELSE sample

\* A decoder that adds the half step for exponent 0 too.
mulawToPcmAlwaysHalfStep(mulawByte) ==
    LET b == BitNot(mulawByte)
        sign == BitAnd(b, 128)
        exponent == BitAnd(ShiftRight(b, 4), 7)
        mantissa == BitAnd(b, 15)
        sample == ShiftLeft(mantissa, exponent + 3) + BIAS + ShiftLeft(1, exponent + 2)
    IN  IF sign # 0 THEN -sample ELSE sample

\* AudioBuffer.mulawToPcm(mulawByte) of gstt.js (and of the earlier server):
\* no mask on the complement, half a step added for exponent # 0, no clip.
mulawToPcm(mulawByte) ==
    LET b == BitNot(mulawByte)
        sign == BitAnd(b, 128)
        exponent == BitAnd(ShiftRight(b, 4), 7)
        mantissa == BitAnd(b, 15)
        base == ShiftLeft(mantissa, exponent + 3) + BIAS
        sample == IF exponent # 0 THEN base + ShiftLeft(1, exponent + 2) ELSE base
    IN  IF sign # 0 THEN -sample ELSE sample

\* The decoders, by name.
Decoders == {"mulawDecode", "mulawDecodeAlt", "Base64ToWavConverter.mulawDecode",
             "mulawToPcm"}

Decode(decoder, mulawByte) ==
    IF decoder = "mulawDecode" THEN mulawDecode(mulawByte)
    ELSE IF decoder = "mulawDecodeAlt" THEN mulawDecodeAlt(mulawByte)
    ELSE IF decoder = "Base64ToWavConverter.mulawDecode"
         THEN Base64ToWavConverter_mulawDecode(mulawByte)
    ELSE mulawToPcm(mulawByte)

\* Calls made of one decoder on one byte.
MaxDecodeCalls == 2

\* The byte to decode: any of 0..255.
DecodeInit ==
    /\ Init!1 /\ Init!2 /\ Init!3 /\ Init!4 /\ Init!5
    /\ Init!6 /\ Init!7 /\ Init!8 /\ Init!9
    /\ Init!10 /\ Init!11
    /\ input \in [kind : {"mulawByte"}, mulawByte : 0..255]
    /\ output = NoOutput
    /\ phoneCall = NoPhoneCall

\* The first call of a decoder on the byte.
DecodeByte ==
    /\ input.kind = "mulawByte"
    /\ output = NoOutput
    /\ \E decoder \in Decoders :
         output' = [op |-> decoder, values |-> <<Decode(decoder, input.mulawByte)>>]
    /\ UNCHANGED <<serverVars, input, phoneCall>>

\* One more call of the same decoder on the same byte.
DecodeAgain ==
    /\ input.kind = "mulawByte"
    /\ output.op \in Decoders
    /\ Len(output.values) < MaxDecodeCalls
    /\ output' = [output EXCEPT
                     !.values = Append(@, Decode(output.op, input.mulawByte))]
    /\ UNCHANGED <<serverVars, input, phoneCall>>

NextDecode ==
    \/ DecodeByte
    \/ DecodeAgain

SpecDecode == DecodeInit /\ [][NextDecode]_vars

\* ------------------------------------------------------------ WAV writers
\*   AudioStitcher.createWavBuffer                  (unnamed/part_002)
\*   Base64ToWavConverter.createWavBuffer, mulawToPcm (unnamed/part_001)
\*   AudioBuffer.createWavBuffer, createWavHeader    (gstt.js)
\* A buffer is a sequence of bytes.

\* Bytes of audio handed to a writer at most.
MaxDataLen == 3

\* The bytes the audio is made of: loudest, negative silence, silence.
AudioBytes == {0, 127, 255}

AudioData == UNION {[1..n -> AudioBytes] : n \in 0..MaxDataLen}

\* buffer.write('RIFF'), 'WAVE', 'fmt ', 'data': the ASCII codes
Ascii_RIFF == <<82, 73, 70, 70>>
Ascii_WAVE == <<87, 65, 86, 69>>
Ascii_fmt == <<102, 109, 116, 32>>
Ascii_data == <<100, 97, 116, 97>>

\* buffer.writeUInt32LE(v), buffer.writeUInt16LE(v): the bytes written
writeUInt32LE(v) ==
    << v % 256, (v \div 256) % 256, (v \div 65536) % 256, (v \div 16777216) % 256 >>

writeUInt16LE(v) == << v % 256, (v \div 256) % 256 >>

\* buffer.writeInt16LE(v), and an Int16Array element seen as bytes: two's
\* complement, low byte first.
writeInt16LE(v) == << (v % 65536) % 256, (v % 65536) \div 256 >>

\* buffer.readUInt32LE(offset), buffer.readUInt16LE(offset); offsets from 0
readUInt32LE(buffer, offset) ==
    buffer[offset + 1] + 256 * buffer[offset + 2] + 65536 * buffer[offset + 3]
        + 16777216 * buffer[offset + 4]

readUInt16LE(buffer, offset) == buffer[offset + 1] + 256 * buffer[offset + 2]

\* The 44 header bytes in the order every writer writes them.
WavHeaderBytes(fileSize, numChannels, rate, byteRate, blockAlign, bits, dataSize) ==
    Ascii_RIFF \o writeUInt32LE(fileSize) \o Ascii_WAVE \o
    Ascii_fmt \o writeUInt32LE(16) \o writeUInt16LE(1) \o
    writeUInt16LE(numChannels) \o writeUInt32LE(rate) \o
    writeUInt32LE(byteRate) \o writeUInt16LE(blockAlign) \o writeUInt16LE(bits) \o
    Ascii_data \o writeUInt32LE(dataSize)

\* A writer that takes the samples per second for the bytes per second.
createWavBufferByteRateIsSampleRate(pcmData, sampleRate, channels, bitsPerSample) ==
    LET blockAlign == channels * (bitsPerSample \div 8)
    IN  WavHeaderBytes(36 + Len(pcmData), channels, sampleRate, sampleRate,
                       blockAlign, bitsPerSample, Len(pcmData)) \o pcmData

\* AudioStitcher.createWavBuffer(pcmData, sampleRate, channels, bitsPerSample);
\* bitsPerSample is a multiple of 8, so bitsPerSample / 8 is an integer.
AudioStitcher_createWavBuffer(pcmData, sampleRate, channels, bitsPerSample) ==
    LET bytesPerSample == bitsPerSample \div 8
        blockAlign == channels * bytesPerSample
        byteRate == sampleRate * blockAlign
        dataSize == Len(pcmData)
        fileSize == 36 + dataSize
    IN  WavHeaderBytes(fileSize, channels, sampleRate, byteRate, blockAlign,
                       bitsPerSample, dataSize) \o pcmData

\* Base64ToWavConverter: this.sampleRate, this.channels, this.bitsPerSample
this_sampleRate == 8000
this_channels == 1
this_bitsPerSample == 16

\* Base64ToWavConverter.createWavBuffer(pcmData)
Base64ToWavConverter_createWavBuffer(pcmData) ==
    LET bytesPerSample == this_bitsPerSample \div 8
        blockAlign == this_channels * bytesPerSample
        byteRate == this_sampleRate * blockAlign
        dataSize == Len(pcmData)
        fileSize == 36 + dataSize
    IN  WavHeaderBytes(fileSize, this_channels, this_sampleRate, byteRate,
                       blockAlign, this_bitsPerSample, dataSize) \o pcmData

\* A conversion to 8-bit samples: one byte for each mu-law byte.
mulawToPcmOneBytePerSample(mulawBuffer) ==
    [i \in DOMAIN mulawBuffer |->
        writeInt16LE(Base64ToWavConverter_mulawDecode(mulawBuffer[i]))[2]]

\* The samples of a buffer as bytes, two for each sample.
RECURSIVE SampleBytes(_)
SampleBytes(samples) ==
    IF samples = <<>> THEN <<>>
    ELSE writeInt16LE(Head(samples)) \o SampleBytes(Tail(samples))

\* Base64ToWavConverter.mulawToPcm(mulawBuffer): Buffer.alloc(length * 2),
\* writeInt16LE(mulawDecode(byte), i * 2) for each byte.
Base64ToWavConverter_mulawToPcm(mulawBuffer) ==
    SampleBytes([i \in DOMAIN mulawBuffer |->
                    Base64ToWavConverter_mulawDecode(mulawBuffer[i])])

\* A header whose RIFF size field is the length of the whole file.
createWavHeaderWholeFileSize(dataLength) ==
    WavHeaderBytes(44 + dataLength, 1, 8000, (8000 * 1 * 16) \div 8,
                   (1 * 16) \div 8, 16, dataLength)

\* AudioBuffer.createWavHeader(dataLength): sampleRate 8000, channels 1,
\* bitsPerSample 16 are its local constants.
createWavHeader(dataLength) ==
    WavHeaderBytes(36 + dataLength, 1, 8000, (8000 * 1 * 16) \div 8,
                   (1 * 16) \div 8, 16, dataLength)

\* AudioBuffer.createWavBuffer(mulawData): an Int16Array of
\* mulawToPcm(byte), its bytes behind the header.
createWavBuffer(mulawData) ==
    LET pcmBuffer == SampleBytes([i \in DOMAIN mulawData |-> mulawToPcm(mulawData[i])])
    IN  createWavHeader(Len(pcmBuffer)) \o pcmBuffer

\* The audio and the format handed to a writer.
WavInit ==
    /\ Init!1 /\ Init!2 /\ Init!3 /\ Init!4 /\ Init!5
    /\ Init!6 /\ Init!7 /\ Init!8 /\ Init!9
    /\ Init!10 /\ Init!11
    /\ input \in [kind : {"audio"}, data : AudioData, sampleRate : {8000, 16000},
                   channels : {1, 2}, bitsPerSample : {8, 16}]
    /\ output = NoOutput
    /\ phoneCall = NoPhoneCall

\* AudioStitcher.createWavBuffer on the data as PCM, in the given format
StitcherWritesWav ==
    /\ input.kind = "audio"
    /\ output = NoOutput
    /\ output' = [op |-> "AudioStitcher.createWavBuffer",
                  value |-> AudioStitcher_createWavBuffer(
                                input.data, input.sampleRate, input.channels,
                                input.bitsPerSample)]
    /\ UNCHANGED <<serverVars, input, phoneCall>>

\* Base64ToWavConverter.createWavBuffer on the data as PCM
ConverterWritesWav ==
    /\ input.kind = "audio"
    /\ output = NoOutput
    /\ output' = [op |-> "Base64ToWavConverter.createWavBuffer",
                  value |-> Base64ToWavConverter_createWavBuffer(input.data)]
    /\ UNCHANGED <<serverVars, input, phoneCall>>

\* Base64ToWavConverter.mulawToPcm on the data as mu-law
ConverterDecodes ==
    /\ input.kind = "audio"
    /\ output = NoOutput
    /\ output' = [op |-> "Base64ToWavConverter.mulawToPcm",
                  value |-> Base64ToWavConverter_mulawToPcm(input.data)]
    /\ UNCHANGED <<serverVars, input, phoneCall>>

\* AudioBuffer.createWavBuffer on the data as mu-law
BufferWritesWav ==
    /\ input.kind = "audio"
    /\ output = NoOutput
    /\ output' = [op |-> "AudioBuffer.createWavBuffer",
                  value |-> createWavBuffer(input.data)]
    /\ UNCHANGED <<serverVars, input, phoneCall>>

NextWav ==
    \/ StitcherWritesWav
    \/ ConverterWritesWav
    \/ ConverterDecodes
    \/ BufferWritesWav

SpecWav == WavInit /\ [][NextWav]_vars

\* ------------------------------------------------------ gain on the PCM
\* TwilioAudioProcessor.convertToWav of dialogflow-service.js run on a
\* recording, with options.gain.  A gain is the fraction <<n, d>>, d a power
\* of two, so that the product sample * gain is exact in a double.

\* options.gain: none (0 is falsy), 0.125, 1.0, 2.0, -1.5
Gains == { <<0, 1>>, <<1, 8>>, <<1, 1>>, <<2, 1>>, <<-3, 2>> }

\* buffer.readInt16LE(offset); offsets from 0
readInt16LE(buffer, offset) ==
    LET u == readUInt16LE(buffer, offset)
    IN  IF u >= 32768 THEN u - 65536 ELSE u

\* Math.round(n / d) for d > 0: the nearest integer, a half rounded up
MathRound(n, d) == (2 * n + d) \div (2 * d)

\* TwilioAudioProcessor.mulawToPcm(mulawBuffer); mulawDecode is the code of
\* ImprovedAudioConverter.mulawDecode.
TwilioAudioProcessor_mulawToPcm(mulawBuffer) ==
    SampleBytes([i \in DOMAIN mulawBuffer |-> mulawDecode(mulawBuffer[i])])

\* TwilioAudioProcessor.createWavHeader(dataSize); sampleRate 8000,
\* channels 1 and bitsPerSample 16 are set by the constructor.
TwilioAudioProcessor_createWavHeader(dataSize) ==
    WavHeaderBytes(36 + dataSize, 1, 8000, 8000 * 1 * (16 \div 8), 1 * (16 \div 8),
                   16, dataSize)

\* An applyGain that stores the product without clipping it.
applyGainWraps(pcmBuffer, gain) ==
    SampleBytes([k \in 1..(Len(pcmBuffer) \div 2) |->
                    MathRound(readInt16LE(pcmBuffer, 2 * (k - 1)) * gain[1], gain[2])])

\* TwilioAudioProcessor.applyGain(pcmBuffer, gain): the buffer it leaves; the
\* buffer holds whole samples.
applyGain(pcmBuffer, gain) ==
    SampleBytes([k \in 1..(Len(pcmBuffer) \div 2) |->
                    LET sample == readInt16LE(pcmBuffer, 2 * (k - 1))
                    IN  MathMax(-32768,
                                MathMin(32767,
                                        MathRound(sample * gain[1], gain[2])))])

\* TwilioAudioProcessor.convertToWav(jsonArray, null, {gain}): the wavBuffer
\* it returns, unless the extraction throws.
convertToWav(jsonArray, gain) ==
    LET extracted == extractAudioFromTwilioArray(jsonArray)
        pcmBuffer == TwilioAudioProcessor_mulawToPcm(extracted.value)
        gained == IF gain[1] # 0 /\ gain # <<1, 1>>
                  THEN applyGain(pcmBuffer, gain) ELSE pcmBuffer
    IN  IF extracted.threw THEN [threw |-> TRUE, value |-> <<>>]
        ELSE [threw |-> FALSE,
              value |-> TwilioAudioProcessor_createWavHeader(Len(gained)) \o gained]

\* The recording and the gain handed to convertToWav.
GainInit ==
    /\ Init!1 /\ Init!2 /\ Init!3 /\ Init!4 /\ Init!5
    /\ Init!6 /\ Init!7 /\ Init!8 /\ Init!9
    /\ Init!10 /\ Init!11
    /\ input \in [kind : {"gain"}, jsonArray : JsonArrays, gain : Gains]
    /\ output = NoOutput
    /\ phoneCall = NoPhoneCall

\* A run of convertToWav without an output path
ConvertToWav ==
    /\ input.kind = "gain"
    /\ output = NoOutput
    /\ LET r == convertToWav(input.jsonArray, input.gain)
       IN  output' = [op |-> "convertToWav", threw |-> r.threw, value |-> r.value]
    /\ UNCHANGED <<serverVars, input, phoneCall>>

NextGain == ConvertToWav

SpecGain == GainInit /\ [][NextGain]_vars

\* ------------------------------------- working_stt.js: the streaming server
\* One call of the streaming server: a PhoneCallTranscriptionStream, the
\* speech stream it holds, its setTimeout callbacks and the replies it has
\* asked Dialogflow and text-to-speech for.  The fields that only feed the
\* log (messageCount, hasSeenMedia, interimCounter, audioBuffer, startTime)
\* are left out.

\* const DETECTION_LANGUAGES
DETECTION_LANGUAGES ==
    << "en-US", "es-ES", "fr-FR", "de-DE", "it-IT", "pt-BR", "zh-CN", "ja-JP",
       "hi-IN" >>

\* this.maxDetectionAttempts = 3
maxDetectionAttempts == 3

\* this.noTranscriptCount > 20
NoTranscriptLimit == 20

\* Bounds: setTimeout callbacks waiting, final transcripts of a call, and
\* the count of empty results once a language is confirmed (it is never
\* reset then, except by a final transcript).
MaxTimeouts == 1
MaxFinals == 2
MaxNoTranscriptCount == 21

\* setTimeout(() => this.setupSpeechStream(this.currentLanguage), 1000): the
\* language is read when the callback runs.
ThisCurrentLanguage == "this.currentLanguage"

\* this.speechStream = null
NoSpeechStream == [languageCode |-> NULL, ended |-> FALSE]

\* constructor(connection), before its call of setupSpeechStream()
NewPhoneCallTranscriptionStream ==
    [ phase               |-> "connected",  \* transport: life cycle of the call
      streamSid           |-> NULL,
      currentLanguage     |-> "en-US",
      languageIndex       |-> 0,
      detectionAttempts   |-> 0,
      isLanguageConfirmed |-> FALSE,
      noTranscriptCount   |-> 0,
      speechStream        |-> NoSpeechStream,
      isStreamingActive   |-> FALSE,
      transcriptBuffer    |-> <<>>,
      timeouts            |-> <<>>,   \* Node: setTimeout callbacks waiting
      sendMessage         |-> <<>>,   \* awaited dialogflowService.sendMessage calls
      synthesizeSpeech    |-> <<>>,   \* awaited ttsClient.synthesizeSpeech calls
      opened              |-> {},     \* history: languages a stream was opened for
      written             |-> FALSE,  \* the last media message was written to a stream
      sent                |-> <<>> ]  \* history: audio responses sent to the caller

\* setupSpeechStream(languageCode): the stream held is ended and dropped, a
\* new one is opened.
setupSpeechStream(p, languageCode) ==
    [p EXCEPT !.speechStream = [languageCode |-> languageCode, ended |-> FALSE],
              !.isStreamingActive = TRUE,
              !.currentLanguage = languageCode,
              !.opened = @ \cup {languageCode}]

\* setTimeout(callback, 1000); the callbacks all wait 1000 ms, so they run
\* in the order they were set.
setTimeout(p, languageCode) ==
    [p EXCEPT !.timeouts = Append(@, languageCode)]

\* A confirmLanguage that notes the language and goes on detecting.
confirmLanguageKeepsDetecting(p, language) ==
    IF p.isLanguageConfirmed THEN p
    ELSE [p EXCEPT !.currentLanguage = language]

\* confirmLanguage(language)
confirmLanguage(p, language) ==
    IF p.isLanguageConfirmed THEN p
    ELSE [p EXCEPT !.isLanguageConfirmed = TRUE, !.currentLanguage = language]

\* tryNextLanguage()
tryNextLanguage(p) ==
    IF p.isLanguageConfirmed THEN p
    ELSE LET p1 == [p EXCEPT
                       !.languageIndex = (@ + 1) % Len(DETECTION_LANGUAGES),
                       !.detectionAttempts = @ + 1]
         IN  IF p1.detectionAttempts >= maxDetectionAttempts
             THEN confirmLanguage(p1, "en-US")
             ELSE setTimeout(p1, DETECTION_LANGUAGES[p1.languageIndex + 1])

\* handleLanguageDetectionFailure()
handleLanguageDetectionFailure(p) ==
    IF ~p.isLanguageConfirmed THEN tryNextLanguage(p)
    ELSE setTimeout(p, ThisCurrentLanguage)

\* handleFinalTranscript(transcript) up to its first await
handleFinalTranscript(p, transcript) ==
    [p EXCEPT !.sendMessage = Append(@, transcript)]

\* What a 'data' event of a speech stream may carry: no result, a result
\* with an empty transcript, an interim transcript, a final transcript.
SpeechResults == {"no result", "empty", "interim", "final"}

\* handleSpeechResult(data); a final transcript is told from the others of
\* the call by its number.
handleSpeechResult(p, data) ==
    IF data = "no result" THEN p
    ELSE IF data = "empty"
         THEN LET p1 == [p EXCEPT !.noTranscriptCount = @ + 1]
              IN  IF ~p1.isLanguageConfirmed /\ p1.noTranscriptCount > NoTranscriptLimit
                  THEN tryNextLanguage([p1 EXCEPT !.noTranscriptCount = 0])
                  ELSE p1
    ELSE LET p1 == confirmLanguage(p, p.currentLanguage)
         IN  IF data = "final"
             THEN LET transcript == Len(p1.transcriptBuffer) + 1
                      p2 == handleFinalTranscript(p1, transcript)
                  IN  [p2 EXCEPT
                          !.transcriptBuffer =
                              Append(@, [text |-> transcript,
                                         language |-> p2.currentLanguage]),
                          !.noTranscriptCount = 0]
             ELSE p1

\* processAudioData(mediaData)
processAudioData(p) ==
    [p EXCEPT !.written = (p.speechStream # NoSpeechStream /\ p.isStreamingActive)]

\* finalizeSpeechStream()
finalizeSpeechStream(p) ==
    IF p.speechStream # NoSpeechStream /\ p.isStreamingActive
    THEN [p EXCEPT !.speechStream.ended = TRUE, !.isStreamingActive = FALSE]
    ELSE p

\* The recognizer is in a run of empty results: the run goes on to the
\* limit before anything else happens.
InSilence ==
    /\ phoneCall.noTranscriptCount > 0
    /\ phoneCall.noTranscriptCount < NoTranscriptLimit

StreamBounded(p) ==
    /\ Len(p.timeouts) <= MaxTimeouts
    /\ Len(p.transcriptBuffer) <= MaxFinals
    /\ p.noTranscriptCount <= MaxNoTranscriptCount

\* mediaws.on("connect"): new PhoneCallTranscriptionStream(connection), whose
\* constructor ends with setupSpeechStream().
StreamInit ==
    /\ Init!1 /\ Init!2 /\ Init!3 /\ Init!4 /\ Init!5
    /\ Init!6 /\ Init!7 /\ Init!8 /\ Init!9
    /\ Init!10 /\ Init!11
    /\ input = NoInput
    /\ output = NoOutput
    /\ phoneCall = setupSpeechStream(NewPhoneCallTranscriptionStream, "en-US")

\* processMessage, event "start"
StreamStart ==
    /\ phoneCall.phase = "connected"
    /\ phoneCall' = [phoneCall EXCEPT !.phase = "started", !.streamSid = "MZ1"]
    /\ UNCHANGED <<serverVars, input, output>>

\* processMessage, event "media"
StreamMedia ==
    /\ phoneCall.phase = "started"
    /\ ~InSilence
    /\ phoneCall' = processAudioData(phoneCall)
    /\ UNCHANGED <<serverVars, input, output>>

\* processMessage, event "stop"
StreamStop ==
    /\ phoneCall.phase = "started"
    /\ ~InSilence
    /\ phoneCall' = [finalizeSpeechStream(phoneCall) EXCEPT !.phase = "stopped"]
    /\ UNCHANGED <<serverVars, input, output>>

\* close()
StreamClose ==
    /\ phoneCall.phase \in {"connected", "started", "stopped"}
    /\ ~InSilence
    /\ phoneCall' = [finalizeSpeechStream(phoneCall) EXCEPT !.phase = "closed"]
    /\ UNCHANGED <<serverVars, input, output>>

\* speechStream.on('error'), of the stream held or of one opened before it
StreamError ==
    /\ ~InSilence
    /\ LET p == handleLanguageDetectionFailure(phoneCall)
       IN  StreamBounded(p) /\ phoneCall' = p
    /\ UNCHANGED <<serverVars, input, output>>

\* speechStream.on('data'), of the stream held or of one opened before it
StreamData ==
    /\ \E data \in SpeechResults :
         /\ InSilence => data = "empty"
         /\ LET p == handleSpeechResult(phoneCall, data)
            IN  StreamBounded(p) /\ phoneCall' = p
    /\ UNCHANGED <<serverVars, input, output>>

\* The first setTimeout callback waiting runs: setupSpeechStream(language)
TimeoutFires ==
    /\ phoneCall.timeouts # <<>>
    /\ ~InSilence
    /\ LET languageCode == IF Head(phoneCall.timeouts) = ThisCurrentLanguage
                           THEN phoneCall.currentLanguage
                           ELSE Head(phoneCall.timeouts)
       IN  phoneCall' = setupSpeechStream(
                            [phoneCall EXCEPT !.timeouts = Tail(@)], languageCode)
    /\ UNCHANGED <<serverVars, input, output>>

\* The sequence s without its i-th element.
RemoveAt(s, i) == SubSeq(s, 1, i - 1) \o SubSeq(s, i + 1, Len(s))

\* dialogflowService.sendMessage settles and handleFinalTranscript goes on:
\* with a reply it calls sendAudioResponse(responseText), which awaits
\* ttsClient.synthesizeSpeech; without one, or on an error, it is done.
SendMessageReturns ==
    /\ ~InSilence
    /\ \E i \in 1..Len(phoneCall.sendMessage) : \E reply \in BOOLEAN :
         phoneCall' =
             [phoneCall EXCEPT
                 !.sendMessage = RemoveAt(@, i),
                 !.synthesizeSpeech =
                     IF reply THEN Append(@, phoneCall.sendMessage[i]) ELSE @]
    /\ UNCHANGED <<serverVars, input, output>>

\* ttsClient.synthesizeSpeech settles and sendAudioResponse goes on: with
\* audio it sends a media message to the caller, on an error nothing.
SynthesizeSpeechReturns ==
    /\ ~InSilence
    /\ \E i \in 1..Len(phoneCall.synthesizeSpeech) : \E audio \in BOOLEAN :
         phoneCall' =
             [phoneCall EXCEPT
                 !.synthesizeSpeech = RemoveAt(@, i),
                 !.sent = IF audio
                          THEN Append(@, phoneCall.synthesizeSpeech[i])
                          ELSE @]
    /\ UNCHANGED <<serverVars, input, output>>

NextStream ==
    \/ StreamStart
    \/ StreamMedia
    \/ StreamStop
    \/ StreamClose
    \/ StreamError
    \/ StreamData
    \/ TimeoutFires
    \/ SendMessageReturns
    \/ SynthesizeSpeechReturns

SpecStream == StreamInit /\ [][NextStream]_vars

\* ------------------------------------------------------------------ claims

Range(f) == {f[i] : i \in DOMAIN f}

\* The pending list and the frames of a call, as sets of frames.
PendingFrames == Range(audioBuffer.audioChunks)
CallFrames(i) == Range(calls[i].frames)

\* Some step handed a new segment to speech recognition.
Handed == Len(calls') = Len(calls) + 1

\* C1: a stop signal with at least one pending frame cancels the timer and
\* flushes the pending frames unconditionally: one final segment, the
\* pending frames, is handed downstream, whatever their number and whenever
\* the previous flush was.
C1_StopFlushesUnconditionally ==
    [][\A c \in Conns :
          (Stop(c) /\ Len(audioBuffer.audioChunks) > 0)
              => /\ timers' = {}
                 /\ Handed
                 /\ calls'[Len(calls')].frames = audioBuffer.audioChunks]_vars

\* C2: a frame added while a flush's downstream call is in progress is not
\* removed when that flush completes: every pending frame that was in no
\* segment handed downstream is still pending after the completion (of a
\* flush with no teardown chained to it).
C2_CompletionKeepsNewFrames ==
    [][(RecognizeReturns /\ \A k \in DOMAIN flights : ~flights[k].thenReset)
          => \A f \in PendingFrames :
                (\A i \in DOMAIN calls : f \notin CallFrames(i))
                    => f \in Range(audioBuffer'.audioChunks)]_vars

\* C3: no frame is handed downstream in more than one segment.
C3_NoFrameInTwoSegments ==
    \A i \in DOMAIN calls : \A j \in DOMAIN calls :
        i < j => CallFrames(i) \cap CallFrames(j) = {}

\* A session is active from its start event to its close.
Active(c) == conn[c] \in {"started", "stopped"}

\* C4: sessions do not share a buffer: every segment holds only frames of the
\* session it is flushed for, and a start, stop or close of one session
\* neither clears nor flushes the pending frames of another, active one.
C4_SessionsIsolated ==
    [][/\ \A i \in DOMAIN calls' : \A f \in Range(calls'[i].frames) :
             f.conn = calls'[i].session
       /\ \A c \in Conns :
             (Start(c) \/ Stop(c) \/ Close(c))
                 => /\ ~Handed
                    /\ \A f \in PendingFrames :
                          (f.conn # c /\ Active(f.conn))
                              => f \in Range(audioBuffer'.audioChunks)]_vars

\* The frames of a segment in ascending sequenceNumber order, frames with
\* equal numbers in arrival order.
Rank(frames, i) ==
    Cardinality({j \in DOMAIN frames :
                    \/ frames[j].seq < frames[i].seq
                    \/ frames[j].seq = frames[i].seq /\ j <= i})

SortBySequenceNumber(frames) ==
    [r \in DOMAIN frames |-> frames[CHOOSE i \in DOMAIN frames : Rank(frames, i) = r]]

\* C5: the bytes handed to speech recognition are the payloads of the
\* segment's frames concatenated in ascending sequenceNumber order.
C5_SegmentInSequenceOrder ==
    \A i \in DOMAIN calls :
        BufferConcat(calls[i].frames) =
            BufferConcat(SortBySequenceNumber(calls[i].frames))

\* C6: a timer tick hands the pending frames downstream if and only if at
\* least minFrames (100) frames are pending and at least 3000 ms have passed
\* since the previous flush.
C6_TickFlushesIffGated ==
    [][Tick => (Handed <=> /\ Len(audioBuffer.audioChunks) >= 100
                           /\ now - audioBuffer.lastProcessTime >= 3000)]_vars

\* C7: a stop signal behaves as a disconnect does: from the same state it
\* hands the same segment downstream and leaves the same buffer, timers and
\* pending continuations.
C7_StopBehavesAsClose ==
    [][\A c \in Conns :
          Stop(c) => /\ audioBuffer' = CloseResult.buf
                     /\ timers' = CloseResult.timers
                     /\ calls' = CloseResult.calls
                     /\ flights' = CloseResult.flights]_vars

\* C8: once a stop signal has been handled and no downstream call is pending
\* any more, none of the session's frames is buffered.
C8_StopRemovesSession ==
    \A c \in Conns :
        (conn[c] = "stopped" /\ flights = <<>>)
            => \A f \in PendingFrames : f.conn # c

\* C9: the continuation of a flush that started before a teardown (reset)
\* leaves the pending list and the frame counter as they are.
C9_NoLateContinuation ==
    [][\A i \in DOMAIN flights :
          (/\ RecognizeReturns
           /\ flights[i].stale
           /\ Len(flights') = Len(flights) - 1
           /\ \A k \in DOMAIN flights' :
                 flights'[k].call = flights[IF k < i THEN k ELSE k + 1].call)
              => /\ audioBuffer'.audioChunks = audioBuffer.audioChunks
                 /\ audioBuffer'.chunkCount = audioBuffer.chunkCount]_vars

\* C10: no downstream call is retried: the speech-recognition collaborator is
\* invoked at most once for each flushed segment.
C10_NoRetry ==
    \A i \in DOMAIN calls : \A j \in DOMAIN calls :
        i < j => calls[i].flush # calls[j].flush

\* C11: a failed speech-recognition call does not affect later ingestion: when
\* the call of a flush fails (no teardown chained or run meanwhile), the
\* error does not escape (the process lives), the timer keeps running, and
\* every frame accepted since the segment was handed over stays pending for
\* a later tick to flush.
C11_FailedCallKeepsIngestion ==
    [][\A i \in DOMAIN flights :
          (/\ Settles(i, "error")
           /\ ~flights[i].thenReset
           /\ ~flights[i].stale)
              => /\ ~crashed'
                 /\ timers' = timers
                 /\ \A f \in PendingFrames :
                       f \notin CallFrames(flights[i].call)
                           => f \in Range(audioBuffer'.audioChunks)]_vars

\* C12: a media frame whose payload is empty or is not valid base64 is
\* dropped: it adds nothing to the pending list and does not count towards
\* minFrames, and the session lives on.
C12_MalformedFrameDropped ==
    [][\A c \in Conns :
          MediaMalformed(c)
              => /\ audioBuffer'.audioChunks = audioBuffer.audioChunks
                 /\ audioBuffer'.chunkCount = audioBuffer.chunkCount
                 /\ ~crashed']_vars

\* C13: a stop or disconnect for a connection that has no session (never
\* started, or already stopped) is a no-op: it hands no segment downstream
\* and leaves the buffer, the timers and the pending calls as they are.
C13_StraySignalIsNoOp ==
    [][\A c \in Conns :
          (StrayStop(c) \/ StrayClose(c))
              => /\ ~Handed
                 /\ audioBuffer' = audioBuffer
                 /\ timers' = timers
                 /\ flights' = flights]_vars

\* The media messages of the recording, each with its parsed sequence number
\* and its decoded bytes.
RecordedFrames ==
    LET media == SelectSeq(input.jsonArray, IsMediaMessage)
    IN  [i \in DOMAIN media |->
            [seq |-> parseInt(media[i].sequenceNumber),
             bytes |-> BufferFrom(media[i].payload)]]

\* C14: extractAudioFromTwilioArray returns the bytes of the media payloads
\* concatenated in ascending integer sequenceNumber order, whatever the
\* order of arrival; messages that are no media messages contribute nothing.
C14_ExtractInSequenceOrder ==
    (output.op = "extractAudioFromTwilioArray" /\ ~output.threw)
        => output.value = BufferConcat(SortBySequenceNumber(RecordedFrames))

\* C14 witness: a recording whose media messages arrived with the sequence
\* numbers 10, 1, 2 was reassembled as payload(1) || payload(2) || payload(10).
C14_Witness ==
    /\ output.op = "extractAudioFromTwilioArray"
    /\ Len(input.jsonArray) = 3
    /\ \A i \in 1..3 : input.jsonArray[i].event = "media"
    /\ input.jsonArray[1].sequenceNumber = <<"1", "0">>
    /\ input.jsonArray[2].sequenceNumber = <<"1">>
    /\ input.jsonArray[3].sequenceNumber = <<"2">>
    /\ input.jsonArray[1].payload = <<"B", "A", "U", "G">>
    /\ input.jsonArray[2].payload = <<"A", "Q", "=", "=">>
    /\ input.jsonArray[3].payload = <<"A", "g", "M", "=">>
    /\ output.value = <<1, 2, 3, 4, 5, 6>>

\* Two frames of the recording carry the same sequence number.
HasDuplicateSequenceNumbers ==
    \E i \in DOMAIN RecordedFrames : \E j \in DOMAIN RecordedFrames :
        i < j /\ RecordedFrames[i].seq = RecordedFrames[j].seq

\* C15: frames with equal sequence numbers are both kept by a reassembly, in
\* their order of arrival: no frame is dropped or deduplicated.
C15_DuplicatesKept ==
    (output.op \in {"extractAudioFromTwilioArray", "convertTwilioArrayToWav"}
       /\ ~output.threw /\ HasDuplicateSequenceNumbers)
        => output.value = BufferConcat(SortBySequenceNumber(RecordedFrames))

\* C16: for every byte 0..255 each mu-law decoder returns a value (no call
\* fails), the same value on every call, within [-32768, 32767].
C16_DecodeInRange ==
    (output.op \in Decoders)
        => \A i \in DOMAIN output.values :
              /\ output.values[i] \in -32768..32767
              /\ output.values[i] = output.values[1]

\* C16 witness: the loudest byte, 0x00, was decoded twice by the decoder of
\* the live server.
C16_Witness ==
    /\ output.op = "mulawToPcm"
    /\ input.mulawByte = 0
    /\ Len(output.values) = 2
    /\ output.values[2] = -16004

\* C17: the silence byte 0xFF decodes to a sample within 8 of 0.
C17_SilenceDecodesToZero ==
    (output.op \in Decoders /\ input.mulawByte = 255)
        => \A i \in DOMAIN output.values : output.values[i] \in -8..8

\* The writers of WAV files, and the bytes of PCM each was given to write.
WavWriters == {"AudioStitcher.createWavBuffer",
               "Base64ToWavConverter.createWavBuffer",
               "AudioBuffer.createWavBuffer"}

PcmLength ==
    IF output.op = "AudioBuffer.createWavBuffer"
    THEN 2 * Len(input.data) ELSE Len(input.data)

\* C18: for a PCM payload of n >= 0 bytes a WAV writer returns exactly
\* 44 + n bytes, with the data-chunk size field n and the RIFF chunk size
\* field 36 + n (44 bytes, 36 and 0 for n = 0).
C18_WavSizes ==
    (output.op \in WavWriters)
        => /\ Len(output.value) = 44 + PcmLength
           /\ readUInt32LE(output.value, 40) = PcmLength
           /\ readUInt32LE(output.value, 4) = 36 + PcmLength

\* C18 witness: AudioStitcher wrote an empty PCM buffer as 44 bytes with
\* ChunkSize 36 and Subchunk2Size 0.
C18_Witness ==
    /\ output.op = "AudioStitcher.createWavBuffer"
    /\ input.data = <<>>
    /\ input.sampleRate = 8000 /\ input.channels = 1 /\ input.bitsPerSample = 16
    /\ Len(output.value) = 44
    /\ readUInt32LE(output.value, 4) = 36
    /\ readUInt32LE(output.value, 40) = 0

\* C19: the codec is 1:1 in length: n mu-law bytes decode to n samples, 2n
\* bytes of PCM, so a WAV file made of n mu-law bytes has 44 + 2n bytes.
C19_CodecKeepsLength ==
    /\ (output.op = "Base64ToWavConverter.mulawToPcm")
          => Len(output.value) = 2 * Len(input.data)
    /\ (output.op = "AudioBuffer.createWavBuffer")
          => Len(output.value) = 44 + 2 * Len(input.data)

\* C19 witness: 3 mu-law bytes were written as a WAV file of 44 + 6 = 50
\* bytes, the samples 132, -16004 and -132.
C19_Witness ==
    /\ output.op = "AudioBuffer.createWavBuffer"
    /\ input.data = <<255, 0, 127>>
    /\ Len(output.value) = 50
    /\ SubSeq(output.value, 45, 50) = <<132, 0, 124, 193, 124, 255>>

\* The format a writer writes: AudioStitcher takes it as arguments, the
\* others have 8000 Hz, 1 channel, 16 bits built in.
FormatWritten ==
    IF output.op = "AudioStitcher.createWavBuffer"
    THEN [sampleRate |-> input.sampleRate, channels |-> input.channels,
          bitsPerSample |-> input.bitsPerSample]
    ELSE [sampleRate |-> 8000, channels |-> 1, bitsPerSample |-> 16]

\* C20: the fmt sub-chunk has size 16 and audio format 1, its byte rate is
\* sampleRate * channels * bitsPerSample / 8 and its block align is
\* channels * bitsPerSample / 8.
C20_FmtChunk ==
    (output.op \in WavWriters)
        => /\ readUInt32LE(output.value, 16) = 16
           /\ readUInt16LE(output.value, 20) = 1
           /\ readUInt32LE(output.value, 28) * 8 =
                 FormatWritten.sampleRate * FormatWritten.channels
                     * FormatWritten.bitsPerSample
           /\ readUInt16LE(output.value, 32) * 8 =
                 FormatWritten.channels * FormatWritten.bitsPerSample

\* C20 witness: for 8000 Hz, 1 channel, 16 bits AudioStitcher wrote the byte
\* rate 16000 and the block align 2.
C20_Witness ==
    /\ output.op = "AudioStitcher.createWavBuffer"
    /\ input.sampleRate = 8000 /\ input.channels = 1 /\ input.bitsPerSample = 16
    /\ readUInt32LE(output.value, 28) = 16000
    /\ readUInt16LE(output.value, 32) = 2

\* C21: ingestion never blocks on a flush: a media frame is taken into the
\* pending list by the handler itself, in every state of the session, also
\* while the recognize call of an earlier flush is pending; it waits for no
\* call and ends none.
C21_IngestionNeverBlocks ==
    [][\A c \in Conns :
          Media(c)
              => /\ Len(audioBuffer'.audioChunks) = Len(audioBuffer.audioChunks) + 1
                 /\ audioBuffer'.audioChunks[Len(audioBuffer'.audioChunks)].conn = c
                 /\ SubSeq(audioBuffer'.audioChunks, 1, Len(audioBuffer.audioChunks))
                       = audioBuffer.audioChunks
                 /\ flights' = flights
                 /\ calls' = calls]_vars

\* C21 witness: a frame was accepted while the call of a flush was pending
\* (it is pending and in no segment handed downstream).
C21_Witness ==
    /\ flights # <<>>
    /\ \E f \in PendingFrames : \A i \in DOMAIN calls : f \notin CallFrames(i)

\* C22: the flush timer is started by the first frame of a session and by no
\* other frame, and at most one flush timer is active at any time.
C22_OneTimerPerSession ==
    [][/\ Cardinality(timers') <= 1
       /\ \A c \in Conns :
             Media(c) => IF count[c] = 0
                         THEN timers = {} /\ Cardinality(timers') = 1
                         ELSE timers' = timers]_vars

\* C23: a session start makes a fresh buffer and scheduler: right after a
\* start event the pending list is empty, no timer runs and the time of the
\* last flush is cleared, whatever an earlier session left behind.
C23_StartIsFresh ==
    [][\A c \in Conns :
          Start(c) => /\ audioBuffer'.audioChunks = <<>>
                      /\ audioBuffer'.chunkCount = 0
                      /\ timers' = {}
                      /\ audioBuffer'.processingInterval = NULL
                      /\ ~audioBuffer'.isRecording
                      /\ audioBuffer'.lastProcessTime = 0]_vars

\* C23 witness: the second call has started, after the first one had
\* flushed a segment, and found nothing of it.
C23_Witness ==
    /\ conn["B"] = "started"
    /\ count["B"] = 0
    /\ Len(calls) > 0
    /\ audioBuffer.audioChunks = <<>>
    /\ audioBuffer.lastProcessTime = 0
    /\ timers = {}

\* C24: a flush with no pending frame is a no-op and no error: a stop or a
\* close with an empty pending list hands no segment downstream, starts no
\* call and raises nothing.
C24_EmptyFlushIsNoOp ==
    [][\A c \in Conns :
          ((Stop(c) \/ Close(c)) /\ audioBuffer.audioChunks = <<>>)
              => /\ calls' = calls
                 /\ Len(flights') = Len(flights)
                 /\ ~crashed'
                 /\ audioBuffer'.audioChunks = <<>>]_vars

\* C24 witness: a call was stopped before it sent a frame, and nothing was
\* handed downstream.
C24_Witness ==
    /\ conn["A"] = "stopped"
    /\ count["A"] = 0
    /\ calls = <<>>
    /\ ~crashed

C27_TableEqualsBranching ==
    (output.op = "mulawDecodeAlt")
        => \A i \in DOMAIN output.values :
              output.values[i] = mulawDecode(input.mulawByte)

\* C28: the decoder of the live server returns, for every byte, the sample
\* of the reference: with b the 8-bit complement of the byte, exponent
\* bits 4..6 of b and mantissa bits 0..3, the magnitude is
\* mantissa * 2^(exponent + 3) + 132, plus 2^(exponent + 2) when the
\* exponent is not 0, and the sample is negative when bit 7 of b is set.
C28_MatchesReference ==
    (output.op = "mulawToPcm")
        => LET b == 255 - input.mulawByte
               exponent == (b \div 16) % 8
               mantissa == b % 16
               magnitude == mantissa * (2 ^ (exponent + 3)) + 132
                            + (IF exponent # 0 THEN 2 ^ (exponent + 2) ELSE 0)
               reference == IF b >= 128 THEN -magnitude ELSE magnitude
           IN  \A i \in DOMAIN output.values : output.values[i] = reference

\* C28 witness: the byte 0x8F (b = 0x70: exponent 7, mantissa 0) was decoded
\* to 132 + 512, and the byte 0x70 (b = 0x8F: exponent 0) could be as well.
C28_Witness ==
    /\ output.op = "mulawToPcm"
    /\ input.mulawByte = 143
    /\ output.values = <<644>>

\* C29: after a stop signal the scheduler is idle: the stop leaves no timer
\* running, and the next frame that arrives while no timer runs starts a
\* new one.
C29_IdleAfterStop ==
    [][\A c \in Conns :
          /\ Stop(c) => timers' = {}
          /\ (Media(c) /\ timers = {} /\ (\E d \in Conns : conn[d] = "stopped"))
                 => Cardinality(timers') = 1]_vars

\* C30: a timer tick that does not flush (fewer than 100 pending frames, or
\* less than 3000 ms since the last flush) leaves the buffer (the pending
\* list, the frame counter, the time of the last flush) as it was, keeps
\* the timer, and makes no recognize call.
C30_SkippedTickChangesNothing ==
    [][(/\ Tick
        /\ \/ Len(audioBuffer.audioChunks) < minChunksBeforeProcessing
           \/ now - audioBuffer.lastProcessTime < GuardMs)
          => /\ audioBuffer' = audioBuffer
             /\ calls' = calls
             /\ flights' = flights
             /\ ~crashed'
             /\ {t.id : t \in timers'} = {t.id : t \in timers}]_vars

\* C30 witness: the timer of a running session is due while 99 frames are
\* pending and nothing has been flushed: the tick that runs now skips.
C30_Witness ==
    /\ conn["A"] = "started"
    /\ Len(audioBuffer.audioChunks) = minChunksBeforeProcessing - 1
    /\ calls = <<>>
    /\ \E t \in timers : now >= t.due

\* C25: language detection tries the listed languages one after the other:
\* when it gives up (detectionAttempts has reached maxDetectionAttempts), a
\* speech stream has been opened for each of the 9 listed languages.
C25_EveryLanguageTried ==
    (phoneCall.detectionAttempts >= maxDetectionAttempts)
        => \A i \in DOMAIN DETECTION_LANGUAGES :
              DETECTION_LANGUAGES[i] \in phoneCall.opened

\* The call of the streaming server has ended: stop event or close.
CallEnded == phoneCall.phase \in {"stopped", "closed"}

\* C33: once the detection attempts are exhausted the stream sticks with
\* English: currentLanguage is en-US, and so is the language of the speech
\* stream that is active.
C33_ExhaustedSticksWithEnglish ==
    (phoneCall.detectionAttempts >= maxDetectionAttempts)
        => /\ phoneCall.currentLanguage = "en-US"
           /\ phoneCall.isStreamingActive
                 => phoneCall.speechStream.languageCode = "en-US"

\* C34: once a language is confirmed it stays confirmed and currentLanguage
\* does not change any more, whatever fires afterwards.
C34_ConfirmedLanguageIsFinal ==
    [][phoneCall.isLanguageConfirmed
          => /\ phoneCall'.isLanguageConfirmed
             /\ phoneCall'.currentLanguage = phoneCall.currentLanguage]_vars

\* C35: after the call has ended no speech stream is opened and none is
\* active: the stream held stays the one that was ended.
C35_NoStreamAfterCallEnd ==
    [][CallEnded
          => /\ phoneCall'.speechStream = phoneCall.speechStream
             /\ ~phoneCall'.isStreamingActive
             /\ phoneCall'.opened = phoneCall.opened]_vars

\* C36: detectionAttempts never exceeds maxDetectionAttempts, whatever
\* errors and empty results the speech streams deliver.
C36_AttemptsBounded ==
    phoneCall.phase # "none"
        => phoneCall.detectionAttempts \in 0..maxDetectionAttempts

\* C36 witness: detection went through its third failure, with streams
\* opened for the first three languages, and stopped there.
C36_Witness ==
    /\ phoneCall.detectionAttempts = maxDetectionAttempts
    /\ phoneCall.isLanguageConfirmed
    /\ phoneCall.languageIndex = 3
    /\ phoneCall.opened = {"en-US", "es-ES", "fr-FR"}
    /\ phoneCall.noTranscriptCount = 0

\* C37: audio responses go back to the caller in the order of the final
\* transcripts that triggered them, at most one for each: the transcript
\* numbers of the responses sent are strictly increasing, and each is the
\* number of a final transcript.
C37_ResponsesInTranscriptOrder ==
    phoneCall.phase # "none"
        => /\ \A i, j \in DOMAIN phoneCall.sent :
                 i < j => phoneCall.sent[i] < phoneCall.sent[j]
           /\ \A i \in DOMAIN phoneCall.sent :
                 phoneCall.sent[i] \in 1..Len(phoneCall.transcriptBuffer)

\* C32: the call information /twiml stored for a CallSid is attached to the
\* session a later start event with that CallSid opens: its from and to
\* numbers are the ones of the request.
C32_CallInfoAttached ==
    [][\A c \in Conns :
          (Start(c) /\ CallInfoOf(c) \in activeCalls)
              => /\ audioBuffer'.callSid = c
                 /\ audioBuffer'.fromNumber = FromOf(c)
                 /\ audioBuffer'.toNumber = ToOf(c)]_vars

\* C38: a transcription is saved with the identifiers of the session whose
\* frames were handed to the recognize call: the session id, call SID and
\* caller the buffer had when the call was made.
C38_SavedWithOwnSession ==
    \A i \in DOMAIN saved :
        /\ saved[i].sessionId = calls[saved[i].call].session
        /\ saved[i].callSid = calls[saved[i].call].session
        /\ saved[i].fromNumber # NULL

\* C39: the reset a disconnect chains to its final flush tears down only the
\* disconnected call's session: when the flush returns and another session
\* has started meanwhile, that session keeps its identifiers, its timer and
\* its pending frames.
C39_ResetSparesNewSession ==
    [][\A i \in 1..Len(flights) : \A outcome \in Outcomes :
          (/\ Settles(i, outcome)
           /\ flights[i].thenReset
           /\ audioBuffer.sessionId # NULL
           /\ audioBuffer.sessionId # calls[flights[i].call].session)
              => /\ audioBuffer'.sessionId = audioBuffer.sessionId
                 /\ audioBuffer'.callSid = audioBuffer.callSid
                 /\ timers' = timers
                 /\ audioBuffer'.audioChunks = audioBuffer.audioChunks]_vars

\* C31: the gain step keeps the length of the PCM (two bytes for each byte
\* of mu-law), leaves every sample the product rounded and clipped to
\* -32768..32767, and comes before the header: the data-chunk size and the
\* RIFF size of the file returned are those of the data in it.
C31_GainBeforeHeader ==
    (output.op = "convertToWav" /\ ~output.threw)
        => LET wav == output.value
               mulaw == extractAudioFromTwilioArray(input.jsonArray).value
               applied == input.gain[1] # 0 /\ input.gain # <<1, 1>>
               expected(k) ==
                   LET product == (2 * mulawDecode(mulaw[k]) * input.gain[1]
                                   + input.gain[2]) \div (2 * input.gain[2])
                   IN  IF ~applied THEN mulawDecode(mulaw[k])
                       ELSE IF product > 32767 THEN 32767
                       ELSE IF product < -32768 THEN -32768
                       ELSE product
           IN  /\ Len(wav) = 44 + 2 * Len(mulaw)
               /\ readUInt32LE(wav, 40) = Len(wav) - 44
               /\ readUInt32LE(wav, 4) = Len(wav) - 8
               /\ \A k \in DOMAIN mulaw :
                     readInt16LE(wav, 44 + 2 * (k - 1)) = expected(k)

\* C31 witness: the recording of the one byte 0x01 (sample -30852) was
\* converted with gain 2.0: a file of 46 bytes whose sample is -32768.
C31_Witness ==
    /\ output.op = "convertToWav"
    /\ ~output.threw
    /\ input.gain = <<2, 1>>
    /\ Len(output.value) = 46
    /\ output.value[45] = 0
    /\ output.value[46] = 128

====
